---- MODULE Spec2Model ----
(***************************************************************************)
(* Model of DrankenBayart/App.jsx: the registration workflow               *)
(* (RegistrationForm.handleRegister), event publishing                     *)
(* (EventCreation.handleCreateEvent), the auth listener of App and the     *)
(* date filter of EventList, against a document store whose point reads    *)
(* and writes are atomic one by one and interleave freely between clients. *)
(*                                                                         *)
(* Strings that the code transforms (emails, names) are sequences of       *)
(* one-character strings, so toLowerCase and trim are computed.            *)
(***************************************************************************)
EXTENDS Integers, Sequences, FiniteSets

\* ------------------------------------------------------------------ bounds
NumSessions == 2    \* browser sessions, each showing one RegistrationForm per event
MaxEvents == 1      \* event documents the store may hold
MaxTime == 2        \* Date.now() readings are drawn from 1..MaxTime
MaxDay == 2         \* the feed's clock runs over days 1..MaxDay

\* The events collection path artifacts/<appId>/public/data/events/<id>/registrations
\* has seven segments (line 23).
RegistrationsPathSegments == 7

Sessions == 1..NumSessions
EventIds == 1..MaxEvents
Forms == Sessions \X EventIds
Times == 1..MaxTime

\* ------------------------------------------------------------------ inputs
\* Raw text typed in the e-mail field: two spellings of one address, a second
\* address, and an address whose local part holds a slash.
Emails == { <<" ", "A", " ">>, <<"a">>, <<"b">>, <<"a", "/", "b">> }
Names == { <<" ", "n">>, <<"m">> }
ErrMsgs == { "unavailable" }
Users == { "null", "anon", "admin" }

\* ------------------------------------------------------------------ strings
Lower(c) == CASE c = "A" -> "a" [] c = "B" -> "b" [] OTHER -> c

ToLowerCase(s) == [i \in DOMAIN s |-> Lower(s[i])]

IsSpace(c) == c = " "

RECURSIVE TrimStart(_)
TrimStart(s) == IF s # <<>> /\ IsSpace(Head(s)) THEN TrimStart(Tail(s)) ELSE s

RECURSIVE TrimEnd(_)
TrimEnd(s) ==
    IF s # <<>> /\ IsSpace(s[Len(s)]) THEN TrimEnd(SubSeq(s, 1, Len(s) - 1)) ELSE s

Trim(s) == TrimEnd(TrimStart(s))

\* lower-case, then trim: the normal form of an e-mail address
Canonical(email) == Trim(ToLowerCase(email))

NormalizeNoLowerCase(email) == Trim(email)

NormalizeNoTrim(email) == ToLowerCase(email)

\* line 248: email.toLowerCase().trim()
NormalizeEmail(email) == Trim(ToLowerCase(email))

\* Number of "/"-separated non-empty segments of a relative path.
NumSegments(path) ==
    Cardinality({i \in DOMAIN path : path[i] # "/" /\ (i = 1 \/ path[i - 1] = "/")})

HasEmptySegment(path) ==
    \E i \in DOMAIN path : path[i] = "/" /\ i < Len(path) /\ path[i + 1] = "/"

\* line 249: doc(collectionRef, id) throws on an empty id and on a path that
\* does not end at a document (an even number of segments in all).
DocRefValid(id) ==
    /\ id # <<>>
    /\ ~HasEmptySegment(id)
    /\ (RegistrationsPathSegments + NumSegments(id)) % 2 = 0

\* ------------------------------------------------------------------ state
VARIABLES
    dbInit,           \* line 17-19: app, db and auth exist (firebaseConfig is not empty)
    authState,        \* line 416: App's auth state {user, loading, isAdmin, userId}
    events,           \* store: the Events collection, id -> document
    regs,             \* store: per event, the documents of its registrations collection
    evPc,             \* EventCreation.handleCreateEvent: "idle" or awaiting "addDoc"
    evLoading,        \* line 167
    evMessage,        \* line 166
    newEvent,         \* line 188: the document handed to addDoc, while it is pending
    pc,               \* per form: where handleRegister is suspended
    loading,          \* line 235, per form
    message,          \* line 234, per form
    regName,          \* per form: the name captured by the running call
    registrationRef,  \* line 249: the document id the running call addresses
    normalizedEmail,  \* line 248
    currentCount,     \* line 272
    late,             \* history: the running call started when its key was already stored
    succ,             \* history: per event, register calls that ended in success
    overlapped,       \* history: per event, some register call started while another ran
    faulted,          \* history: per event, some register call met a store fault
    now,              \* feed: the current instant, hours since day 0, UTC
    tz,               \* feed: the client's offset from UTC in hours (local = UTC + tz)
    snapshot,         \* feed: the event dates of the last snapshot delivered
    upcomingEvents    \* feed: line 378, the dates EventList shows

storeVars == <<events, regs>>
adminVars == <<authState, evPc, evLoading, evMessage, newEvent>>
formVars == <<pc, loading, message, regName, registrationRef, normalizedEmail, currentCount>>
histVars == <<late, succ, overlapped, faulted>>
feedVars == <<now, tz, snapshot, upcomingEvents>>
vars == <<dbInit, storeVars, adminVars, formVars, histVars, feedVars>>

\* null, and the messages the handlers set (type, title, content)
NoMessage == [type |-> "none", title |-> "", content |-> ""]

Msg(type, title, content) == [type |-> type, title |-> title, content |-> content]

NoNewEvent == [adminId |-> "", registrationsCount |-> -1]

EventIdOf(f) == f[2]

\* ------------------------------------------------------------------ store
\* getDoc(ref).exists()
DocSnapExists(coll, id) == \E d \in coll : d.id = id

\* setDoc(ref, data): an upsert at the document id
SetDoc(coll, id, data) ==
    {d \in coll : d.id # id}
        \cup {[id |-> id, name |-> data.name, email |-> data.email,
               registeredAt |-> data.registeredAt]}

\* ------------------------------------------------------------------ auth
IsAnonymous(user) == user = "anon"

IsAdminOfAnyUser(user) == IF user = "null" THEN "null" ELSE "true"

\* line 449: user && !user.isAnonymous (null for no user)
IsAdminOf(user) ==
    IF user = "null" THEN "null" ELSE IF IsAnonymous(user) THEN "false" ELSE "true"

Truthy(v) == v = "true"

\* line 448-456
OnAuthStateChanged(user) ==
    /\ dbInit
    /\ authState' = [user |-> user, loading |-> FALSE, isAdmin |-> IsAdminOf(user),
                     userId |-> user]
    /\ UNCHANGED <<dbInit, storeVars, evPc, evLoading, evMessage, newEvent, formVars,
                   histVars, feedVars>>

\* line 425-429
AuthNotInitialized ==
    /\ ~dbInit
    /\ authState.loading
    /\ authState' = [authState EXCEPT !.loading = FALSE]
    /\ UNCHANGED <<dbInit, storeVars, evPc, evLoading, evMessage, newEvent, formVars,
                   histVars, feedVars>>

\* line 461, 485-487: the EventCreation form is on screen
CreationRendered == ~authState.loading /\ Truthy(authState.isAdmin)

\* ------------------------------------------------------------------ publishing
\* Of newEvent's fields only adminId and registrationsCount are carried: no
\* handler modelled here reads the others. The store holds at most MaxEvents
\* events, so the form is submitted only while an id is free.
\* line 177-198 and the call of addDoc at line 200
CreateSubmit ==
    /\ CreationRendered
    /\ evPc = "idle"
    /\ ~evLoading
    /\ DOMAIN events # EventIds
    /\ IF ~dbInit
       THEN /\ evMessage' = Msg("error", "Database Error", "Database not initialized.")
            /\ evLoading' = FALSE
            /\ UNCHANGED <<evPc, newEvent>>
       ELSE /\ evMessage' = NoMessage
            /\ evLoading' = TRUE
            /\ newEvent' = [adminId |-> authState.userId, registrationsCount |-> 0]
            /\ evPc' = "addDoc"
    /\ UNCHANGED <<dbInit, storeVars, authState, formVars, histVars, feedVars>>

\* line 200-202, 206-208: the store adds the document under an id of its choosing
CreateAddDoc(id) ==
    /\ evPc = "addDoc"
    /\ id \notin DOMAIN events
    /\ events' = [v \in DOMAIN events \cup {id} |->
                    IF v = id THEN newEvent ELSE events[v]]
    /\ evMessage' = Msg("success", "Event Created!", "")
    /\ evLoading' = FALSE
    /\ evPc' = "idle"
    /\ newEvent' = NoNewEvent
    /\ UNCHANGED <<dbInit, regs, authState, formVars, histVars, feedVars>>

\* line 203-208
CreateFault(err) ==
    /\ evPc = "addDoc"
    /\ evMessage' = Msg("error", "Creation Failed", err)
    /\ evLoading' = FALSE
    /\ evPc' = "idle"
    /\ newEvent' = NoNewEvent
    /\ UNCHANGED <<dbInit, storeVars, authState, formVars, histVars, feedVars>>

\* ------------------------------------------------------------------ registration
\* handleRegister runs in pieces: each action below is one awaited store call
\* taking effect at the store, followed by the handler's own code up to its next
\* await (that code touches no shared state, so it is not a step of its own).
\* pc names the store call the handler is suspended on.
InFlight(f) == pc[f] # "idle"

\* line 311, and EventCard renders a form only for an event of the feed
Rendered(f) == EventIdOf(f) \in DOMAIN events

IncrementedCountNoIncrement(count) == count

IncrementedCountTwice(count) == count + 2

\* line 274: currentCount + 1
IncrementedCount(count) == count + 1

\* line 272: registrationsCount || 0
OrZero(count) == IF count = 0 THEN 0 ELSE count

\* The call of form f is over: its message is set, loading is false (line 287 or
\* 256) and its captured values are gone.
Finish(f, msg) ==
    /\ message' = [message EXCEPT ![f] = msg]
    /\ loading' = [loading EXCEPT ![f] = FALSE]
    /\ pc' = [pc EXCEPT ![f] = "idle"]
    /\ regName' = [regName EXCEPT ![f] = <<>>]
    /\ registrationRef' = [registrationRef EXCEPT ![f] = <<>>]
    /\ normalizedEmail' = [normalizedEmail EXCEPT ![f] = <<>>]
    /\ currentCount' = [currentCount EXCEPT ![f] = 0]
    /\ late' = [late EXCEPT ![f] = FALSE]

\* line 237-253: the submit handler up to its first await. doc() at line 249 is
\* called before the try block opens at line 251: when it throws, the handler
\* ends with loading still true and no message.
RegSubmit(f, name, email) ==
    /\ Rendered(f)
    /\ pc[f] = "idle"
    /\ ~loading[f]
    /\ name # <<>>
    /\ email # <<>>
    /\ IF ~dbInit
       THEN /\ message' = [message EXCEPT ![f] =
                    Msg("error", "Database Error", "Database not initialized.")]
            /\ loading' = [loading EXCEPT ![f] = FALSE]
            /\ UNCHANGED <<pc, regName, registrationRef, normalizedEmail, late, overlapped>>
       ELSE IF ~DocRefValid(NormalizeEmail(email))
       THEN /\ message' = [message EXCEPT ![f] = NoMessage]
            /\ loading' = [loading EXCEPT ![f] = TRUE]
            /\ UNCHANGED <<pc, regName, registrationRef, normalizedEmail, late, overlapped>>
       ELSE /\ message' = [message EXCEPT ![f] = NoMessage]
            /\ loading' = [loading EXCEPT ![f] = TRUE]
            /\ regName' = [regName EXCEPT ![f] = name]
            /\ normalizedEmail' = [normalizedEmail EXCEPT ![f] = NormalizeEmail(email)]
            /\ registrationRef' = [registrationRef EXCEPT ![f] = NormalizeEmail(email)]
            /\ pc' = [pc EXCEPT ![f] = "getReg"]
            /\ late' = [late EXCEPT ![f] =
                    \E d \in regs[EventIdOf(f)] : Canonical(d.id) = Canonical(email)]
            /\ overlapped' = [overlapped EXCEPT ![EventIdOf(f)] =
                    @ \/ \E g \in Forms : g # f /\ EventIdOf(g) = EventIdOf(f) /\ InFlight(g)]
    /\ UNCHANGED <<dbInit, storeVars, adminVars, currentCount, succ, faulted, feedVars>>

RegGetDocNoReturn(f) ==
    /\ pc[f] = "getReg"
    /\ IF DocSnapExists(regs[EventIdOf(f)], registrationRef[f])
       THEN /\ message' = [message EXCEPT ![f] = Msg("error", "Already Registered", "")]
            /\ loading' = [loading EXCEPT ![f] = FALSE]
       ELSE UNCHANGED <<loading, message>>
    /\ pc' = [pc EXCEPT ![f] = "setReg"]
    /\ UNCHANGED <<dbInit, storeVars, adminVars, regName, registrationRef, normalizedEmail,
                   currentCount, histVars, feedVars>>

\* line 253-261: the point read of the registration answers; a document that
\* exists ends the call, otherwise setDoc is called.
RegGetDoc(f) ==
    /\ pc[f] = "getReg"
    /\ IF DocSnapExists(regs[EventIdOf(f)], registrationRef[f])
       THEN Finish(f, Msg("error", "Already Registered", ""))
       ELSE /\ pc' = [pc EXCEPT ![f] = "setReg"]
            /\ UNCHANGED <<loading, message, regName, registrationRef, normalizedEmail,
                           currentCount, late>>
    /\ UNCHANGED <<dbInit, storeVars, adminVars, succ, overlapped, faulted, feedVars>>

\* line 261-269: the store writes the registration; getDoc of the event is called
RegSetDoc(f, t) ==
    /\ pc[f] = "setReg"
    /\ regs' = [regs EXCEPT ![EventIdOf(f)] =
            SetDoc(@, registrationRef[f],
                   [name |-> Trim(regName[f]), email |-> normalizedEmail[f],
                    registeredAt |-> t])]
    /\ pc' = [pc EXCEPT ![f] = "getEvent"]
    /\ UNCHANGED <<dbInit, events, adminVars, loading, message, regName, registrationRef,
                   normalizedEmail, currentCount, histVars, feedVars>>

\* The success path from line 279 on
RegSucceed(f) ==
    /\ Finish(f, Msg("success", "Registration Complete!", ""))
    /\ succ' = [succ EXCEPT ![EventIdOf(f)] = @ + 1]
    /\ UNCHANGED <<overlapped, faulted>>

\* line 269-275: the read of the event answers; updateDoc is called with the
\* count read plus one (an event that is gone skips the update)
RegGetEvent(f) ==
    /\ pc[f] = "getEvent"
    /\ IF EventIdOf(f) \in DOMAIN events
       THEN /\ currentCount' = [currentCount EXCEPT ![f] =
                    OrZero(events[EventIdOf(f)].registrationsCount)]
            /\ pc' = [pc EXCEPT ![f] = "updEvent"]
            /\ UNCHANGED <<loading, message, regName, registrationRef, normalizedEmail,
                           histVars>>
       ELSE RegSucceed(f)
    /\ UNCHANGED <<dbInit, storeVars, adminVars, feedVars>>

\* line 273-288: the store writes the counter and the call ends in success
RegUpdateDoc(f) ==
    /\ pc[f] = "updEvent"
    /\ events' = [events EXCEPT ![EventIdOf(f)].registrationsCount =
            IncrementedCount(currentCount[f])]
    /\ RegSucceed(f)
    /\ UNCHANGED <<dbInit, regs, adminVars, feedVars>>

RegFaultRollback(f, err) ==
    /\ InFlight(f)
    /\ Finish(f, Msg("error", "Registration Failed", err))
    /\ regs' = [regs EXCEPT ![EventIdOf(f)] = {d \in @ : d.id # registrationRef[f]}]
    /\ faulted' = [faulted EXCEPT ![EventIdOf(f)] = TRUE]
    /\ UNCHANGED <<dbInit, events, adminVars, succ, overlapped, feedVars>>

\* line 283-288: the awaited store call rejects; nothing is written
RegFault(f, err) ==
    /\ InFlight(f)
    /\ Finish(f, Msg("error", "Registration Failed", err))
    /\ faulted' = [faulted EXCEPT ![EventIdOf(f)] = TRUE]
    /\ UNCHANGED <<dbInit, storeVars, adminVars, succ, overlapped, feedVars>>

\* ------------------------------------------------------------------ feed
TzOffsets == {-12, -5, 0, 2, 14}
Dates == 0..(MaxDay + 1)
LastHour == 24 * (MaxDay + 1) - 1

\* new Date("YYYY-MM-DD"): midnight UTC of that date
ParseDate(date) == date * 24

\* the local calendar date of an instant
LocalDate(instant, offset) == (instant + offset) \div 24

\* line 377: new Date(new Date().toDateString()), local midnight of today
LocalMidnight(instant, offset) == LocalDate(instant, offset) * 24 - offset

\* line 377
IsUpcoming(date, instant, offset) == ParseDate(date) >= LocalMidnight(instant, offset)

\* line 371-379
FeedSnapshot(dates) ==
    /\ dbInit
    /\ snapshot' = dates
    /\ upcomingEvents' = {d \in dates : IsUpcoming(d, now, tz)}
    /\ UNCHANGED <<dbInit, storeVars, adminVars, formVars, histVars, now, tz>>

Tick ==
    /\ now < LastHour
    /\ now' = now + 1
    /\ UNCHANGED <<dbInit, storeVars, adminVars, formVars, histVars, tz, snapshot,
                   upcomingEvents>>

\* ------------------------------------------------------------------ specifications
InitProgram ==
    /\ authState = [user |-> "null", loading |-> TRUE, isAdmin |-> "false",
                    userId |-> "null"]
    /\ events = <<>>
    /\ regs = [v \in EventIds |-> {}]
    /\ evPc = "idle"
    /\ evLoading = FALSE
    /\ evMessage = NoMessage
    /\ newEvent = NoNewEvent
    /\ pc = [f \in Forms |-> "idle"]
    /\ loading = [f \in Forms |-> FALSE]
    /\ message = [f \in Forms |-> NoMessage]
    /\ regName = [f \in Forms |-> <<>>]
    /\ registrationRef = [f \in Forms |-> <<>>]
    /\ normalizedEmail = [f \in Forms |-> <<>>]
    /\ currentCount = [f \in Forms |-> 0]
    /\ late = [f \in Forms |-> FALSE]
    /\ succ = [v \in EventIds |-> 0]
    /\ overlapped = [v \in EventIds |-> FALSE]
    /\ faulted = [v \in EventIds |-> FALSE]
    /\ snapshot = {}
    /\ upcomingEvents = {}

Init ==
    /\ dbInit \in BOOLEAN
    /\ InitProgram
    /\ now = 24
    /\ tz = 0

Next ==
    \/ \E user \in Users : OnAuthStateChanged(user)
    \/ AuthNotInitialized
    \/ CreateSubmit
    \/ \E id \in EventIds : CreateAddDoc(id)
    \/ \E err \in ErrMsgs : CreateFault(err)
    \/ \E f \in Forms, name \in Names, email \in Emails : RegSubmit(f, name, email)
    \/ \E f \in Forms : RegGetDoc(f)
    \/ \E f \in Forms, t \in Times : RegSetDoc(f, t)
    \/ \E f \in Forms : RegGetEvent(f)
    \/ \E f \in Forms : RegUpdateDoc(f)
    \/ \E f \in Forms, err \in ErrMsgs : RegFault(f, err)

Spec == Init /\ [][Next]_vars

FeedInit ==
    /\ dbInit = TRUE
    /\ InitProgram
    /\ now = 24
    /\ tz \in TzOffsets

FeedNext ==
    \/ Tick
    \/ \E dates \in SUBSET Dates : FeedSnapshot(dates)

FeedSpec == FeedInit /\ [][FeedNext]_vars

\* ------------------------------------------------------------------ claims
Counter(v) == events[v].registrationsCount

Idle(v) == \A f \in Forms : EventIdOf(f) = v => ~InFlight(f)

\* the step is one of form f's running call
StepOf(f) == InFlight(f) /\ pc'[f] # pc[f]

Title(f) == message[f].title

\* C1 (as amended): a registration document is never removed, a call that ends
\* in success leaves its document stored, and a register call that starts when
\* a document of the same normalized e-mail is stored writes nothing to the
\* store and ends in 'Already Registered', or in 'Registration Failed' when the
\* store faults on its point read.
C1_LateRegisterWritesNothing ==
    [][ /\ \A v \in EventIds : \A d \in regs[v] : \E e \in regs'[v] : e.id = d.id
        /\ \A f \in Forms :
            /\ (StepOf(f) /\ message'[f].title = "Registration Complete!")
                    => \E d \in regs'[EventIdOf(f)] : d.id = Canonical(registrationRef[f])
            /\ (StepOf(f) /\ late[f])
                    => /\ pc'[f] = "idle"
                       /\ message'[f].title \in {"Already Registered", "Registration Failed"}
                       /\ storeVars' = storeVars
                       /\ succ' = succ ]_vars

\* C1 witness: a call that started after its key was stored has ended in
\* 'Already Registered', after a registration of that event succeeded.
C1_Witness ==
    \E f \in Forms :
        /\ Title(f) = "Already Registered"
        /\ succ[EventIdOf(f)] = 1
        /\ Cardinality(regs[EventIdOf(f)]) = 1
        /\ Counter(EventIdOf(f)) = 1

\* C1 as stated: every register call that starts when a document of the same
\* normalized e-mail is stored ends in 'Already Registered'.
C1_LateRegisterIsDuplicate ==
    [][ \A f \in Forms :
            (StepOf(f) /\ late[f] /\ pc'[f] = "idle")
                => message'[f].title = "Already Registered" ]_vars

\* C2: in every reachable state each event holds at most one registration
\* document per normalized e-mail, and each document is stored under its
\* normalized e-mail.
C2_OneDocumentPerEmail ==
    \A v \in EventIds :
        /\ \A d1, d2 \in regs[v] : Canonical(d1.id) = Canonical(d2.id) => d1 = d2
        /\ \A d \in regs[v] : d.id = Canonical(d.id) /\ d.email = d.id

\* C2 witness: two calls with one key both passed the duplicate check and both
\* wrote, and the event holds one document.
C2_Witness ==
    \E f, g \in Forms :
        /\ f # g
        /\ EventIdOf(f) = EventIdOf(g)
        /\ pc[f] = "getEvent"
        /\ pc[g] = "getEvent"
        /\ registrationRef[f] = registrationRef[g]
        /\ Cardinality(regs[EventIdOf(f)]) = 1

\* C3: while the register calls of an event have run strictly one after
\* another and without a store fault, and none is running, the event's counter
\* equals the number of calls that succeeded and the number of its documents.
C3_SequentialCounter ==
    \A v \in DOMAIN events :
        (Idle(v) /\ ~overlapped[v] /\ ~faulted[v])
            => /\ Counter(v) = succ[v]
               /\ Cardinality(regs[v]) = succ[v]

\* C3 witness: two sequential registrations have succeeded.
C3_Witness ==
    \E v \in DOMAIN events :
        /\ Idle(v) /\ ~overlapped[v] /\ ~faulted[v]
        /\ succ[v] = 2
        /\ Counter(v) = 2

\* C4: when k >= 1 register calls of an event with pairwise distinct normalized
\* e-mails have succeeded, with no store fault and none still running, the
\* counter is at least 1 and at most k, however the calls interleaved.
C4_ConcurrentCounterRange ==
    \A v \in DOMAIN events :
        (Idle(v) /\ ~faulted[v] /\ succ[v] >= 1 /\ Cardinality(regs[v]) = succ[v])
            => Counter(v) \in 1..succ[v]

\* C4 witness: two overlapping calls with distinct e-mails both succeeded and
\* the counter is 1.
C4_Witness ==
    \E v \in DOMAIN events :
        /\ Idle(v) /\ ~faulted[v] /\ overlapped[v]
        /\ succ[v] = 2
        /\ Cardinality(regs[v]) = 2
        /\ Counter(v) = 1

\* C5: a register call whose point read finds a document at its key writes
\* nothing, neither reads nor writes the event, and ends at once in 'Already
\* Registered' with loading false.
C5_DuplicateWritesNothing ==
    [][ \A f \in Forms :
            (/\ pc[f] = "getReg"
             /\ pc'[f] # "getReg"
             /\ \E d \in regs[EventIdOf(f)] : d.id = registrationRef[f]
             /\ message'[f].title # "Registration Failed")
                => /\ storeVars' = storeVars
                   /\ pc'[f] = "idle"
                   /\ message'[f].title = "Already Registered"
                   /\ ~loading'[f] ]_vars

\* C5 witness: a call has ended in 'Already Registered' and the stored document
\* of the event is not the one that call would have written.
C5_Witness ==
    \E f \in Forms :
        /\ Title(f) = "Already Registered"
        /\ \E d \in regs[EventIdOf(f)] : d.registeredAt = 2 /\ d.name = <<"m">>

\* C6: a store fault on the re-read of the event or on the write of the counter
\* ends the call in 'Registration Failed' with the store's message, leaves the
\* store as it is with the call's registration document in it, and leaves no
\* call running; the only step of a call that changes an event ends the call in
\* success.
C6_LateFaultKeepsRegistration ==
    [][ \A f \in Forms :
            /\ (/\ pc[f] \in {"getEvent", "updEvent"}
                /\ pc'[f] = "idle"
                /\ message'[f].title # "Registration Complete!")
                    => /\ message'[f] \in {Msg("error", "Registration Failed", e) : e \in ErrMsgs}
                       /\ ~loading'[f]
                       /\ storeVars' = storeVars
                       /\ \E d \in regs'[EventIdOf(f)] : d.id = registrationRef[f]
            /\ (StepOf(f) /\ events' # events)
                    => message'[f].title = "Registration Complete!" ]_vars

\* C6 witness: a call met a fault after its document was written: the document
\* is stored, no call succeeded and the counter is 0.
C6_Witness ==
    \E f \in Forms :
        /\ Title(f) = "Registration Failed"
        /\ Idle(EventIdOf(f))
        /\ Cardinality(regs[EventIdOf(f)]) = 1
        /\ succ[EventIdOf(f)] = 0
        /\ Counter(EventIdOf(f)) = 0

\* C7 as stated: no register or createEvent call that is over (no store call of
\* it is pending) leaves its form with loading true.
C7_NoFormStuckLoading ==
    /\ \A f \in Forms : ~InFlight(f) => ~loading[f]
    /\ evPc = "idle" => ~evLoading

\* C8 as stated: whenever the feed filters a snapshot, it keeps an event dated
\* the client's local today and drops an event dated the local yesterday.
C8_FeedKeepsTodayDropsYesterday ==
    [][ (<<snapshot, upcomingEvents>>' # <<snapshot, upcomingEvents>>)
            => \A d \in snapshot' :
                /\ d = LocalDate(now, tz) => d \in upcomingEvents'
                /\ d = LocalDate(now, tz) - 1 => d \notin upcomingEvents' ]_vars

\* C9: isAdmin is true exactly when the last notified identity is present and
\* not anonymous, and createEvent is started, and its write issued, only in
\* states where isAdmin is true.
C9_CreateOnlyWhenCredentialed ==
    /\ [](Truthy(authState.isAdmin) <=> authState.user \notin {"null", "anon"})
    /\ [][ (evPc = "idle" /\ evPc' = "addDoc")
              => /\ Truthy(authState.isAdmin)
                 /\ authState.user \notin {"null", "anon"}
                 /\ newEvent'.adminId = authState.user ]_vars

\* C9 witness: a createEvent write is pending, issued by the credentialed user.
C9_Witness ==
    /\ evPc = "addDoc"
    /\ newEvent.adminId = "admin"
    /\ authState.user = "admin"

\* C10 as stated: each write of the counter by register stores a value strictly
\* greater than the value stored before it.
C10_CounterWritesIncrease ==
    [][ \A f \in Forms :
            (pc[f] = "updEvent" /\ message'[f].title = "Registration Complete!")
                => events'[EventIdOf(f)].registrationsCount > Counter(EventIdOf(f)) ]_vars

\* C11 as stated: in every reachable state an event's counter is at most the
\* number of registration documents stored under that event.
C11_CounterNeverOverCounts ==
    \A v \in DOMAIN events : Counter(v) <= Cardinality(regs[v])

====
